---- MODULE Spec2Model ----
(***************************************************************************)
(* Patroneos, filter role: one inbound request travelling through the      *)
(* middleware chain of filter.go (validateJSON, validateMaxTransactions,   *)
(* validateTransactionSize, validateMaxSignatures, validateContract) and,  *)
(* when every middleware lets it through, forwardCallToNodeos.             *)
(* A deployed filter also mounts the relay route, and posts the outcome of  *)
(* each request to its relay endpoints.                                    *)
(*                                                                         *)
(* A request body is a byte string.  The model keeps of it exactly what    *)
(* the handlers look at: whether it is empty, whether json.Valid accepts   *)
(* it, the first token of its trimmed text, and the JSON values that       *)
(* json.Unmarshal walks over when it fills a Transaction.                  *)
(***************************************************************************)
EXTENDS Integers, Sequences, FiniteSets, TLC

\* ------------------------------------------------------------------ bounds

\* Longest JSON array of transactions a request body carries.
MaxBatch == 2

\* Largest value of maxTransactions, maxSignatures and maxTransactionSize.
MaxThreshold == 2

\* Longest list of relay endpoints (logEndpoints) of a deployed filter.
MaxEndpoints == 2

SeqsUpTo(S, n) == UNION {[1..k -> S] : k \in 0..n}

Range(s) == {s[i] : i \in 1..Len(s)}

\* ------------------------------------------------------------ JSON values

\* A JSON object that json.Unmarshal can be asked to store into a
\* Transaction: t = "object" carries well-typed "actions" and "signatures"
\* members (other members, such as "name" in the tests, are ignored by the
\* decoder and left out); t = "mistyped" is an object one of whose known
\* members has the wrong JSON type (e.g. {"signatures": 5}); t = "null" is
\* the JSON value null and t = "scalar" any other value that is not an
\* object (a number, a string, a boolean, a nested array).
JSONObject(acts, sigs) == [t |-> "object", actions |-> acts, signatures |-> sigs]

JSONAction(c, d) == [code |-> c, data |-> d]

JSONMistyped == [t |-> "mistyped", actions |-> <<>>, signatures |-> <<>>]

JSONNull == [t |-> "null", actions |-> <<>>, signatures |-> <<>>]

JSONScalar == [t |-> "scalar", actions |-> <<>>, signatures |-> <<>>]

\* The objects requests are built from: the bodies of the tests of
\* filter.go (an object with unknown members only, one action on "tokens",
\* one action on "currency", a long data payload, two signatures) and one
\* transaction whose second action is the offending one.
JSONObjects ==
    { JSONObject(<<>>, <<>>),
      JSONObject(<<JSONAction("tokens", "a")>>, <<"12345">>),
      JSONObject(<<JSONAction("currency", "a")>>, <<"12345">>),
      JSONObject(<<JSONAction("tokens", "aa")>>, <<"12345">>),
      JSONObject(<<JSONAction("tokens", "a")>>, <<"12345", "54321">>),
      JSONObject(<<JSONAction("tokens", "a"), JSONAction("currency", "aa")>>,
                 <<"12345", "54321">>) }

JSONElements == JSONObjects \cup {JSONMistyped, JSONNull, JSONScalar}

\* Request bodies.  kind: "empty" (zero bytes), "malformed" (bytes that are
\* not JSON), "scalar", "object", "array" (valid JSON texts).  lead is the
\* first character of strings.TrimSpace(body): for valid JSON it follows
\* from the kind, for malformed text it is any of the three cases the code
\* distinguishes.  items are the JSON values of the text.
Body(k, l, its) == [kind |-> k, lead |-> l, items |-> its]

EmptyBody == Body("empty", "", <<>>)

MalformedBodies == {Body("malformed", l, <<>>) : l \in {"{", "[", "x"}}

ScalarBody == Body("scalar", "x", <<>>)

ObjectBodies == {Body("object", "{", <<o>>) : o \in JSONObjects \cup {JSONMistyped}}

ArrayBodies == {Body("array", "[", its) : its \in SeqsUpTo(JSONElements, MaxBatch)}

Bodies == {EmptyBody, ScalarBody} \cup MalformedBodies \cup ObjectBodies \cup ArrayBodies

\* len(jsonBytes) > 0
nonEmpty(b) == b.kind # "empty"

\* json.Valid(jsonBytes); false on zero bytes
jsonValid(b) == b.kind \in {"scalar", "object", "array"}

\* strings.HasPrefix(strings.TrimSpace(string(jsonBytes)), p)
hasPrefix(b, p) == b.lead = p

\* -------------------------------------------------------------- decoding

\* Go values.  A Transaction keeps the two members the filter reads.
Action(c, d) == [Code |-> c, Data |-> d]

Transaction(acts, sigs) == [Actions |-> acts, Signatures |-> sigs]

ZeroTransaction == Transaction(<<>>, <<>>)

Decoded(e, v) == [err |-> e, val |-> v]

\* json.Unmarshal of one JSON value into a Transaction: an object fills the
\* struct, null leaves the zero value, anything else is an
\* UnmarshalTypeError.
decodeTransaction(j) ==
    CASE j.t = "object" ->
            Decoded(FALSE,
                    Transaction([i \in 1..Len(j.actions) |->
                                    Action(j.actions[i].code, j.actions[i].data)],
                                j.signatures))
      [] j.t = "null" -> Decoded(FALSE, ZeroTransaction)
      [] OTHER -> Decoded(TRUE, ZeroTransaction)

\* json.Unmarshal(jsonBytes, &transaction): syntax is checked first, then
\* the top-level value is stored into the struct.
unmarshalTransaction(b) ==
    IF ~jsonValid(b) \/ b.kind # "object"
    THEN Decoded(TRUE, <<>>)
    ELSE LET d == decodeTransaction(b.items[1])
         IN  Decoded(d.err, <<d.val>>)

\* json.Unmarshal of an array with its error dropped: the elements that do
\* not fit are left at the zero value and the rest is kept.
unmarshalTransactionsSkippingMisfits(b) ==
    IF ~jsonValid(b) \/ b.kind # "array"
    THEN Decoded(TRUE, <<>>)
    ELSE Decoded(FALSE, [i \in 1..Len(b.items) |-> decodeTransaction(b.items[i]).val])

\* json.Unmarshal(jsonBytes, &transactions): every element of the array is
\* stored into a Transaction; one element that does not fit is an error.
unmarshalTransactions(b) ==
    IF ~jsonValid(b) \/ b.kind # "array"
    THEN Decoded(TRUE, <<>>)
    ELSE LET ds == [i \in 1..Len(b.items) |-> decodeTransaction(b.items[i])]
         IN  Decoded(\E i \in 1..Len(ds) : ds[i].err,
                     [i \in 1..Len(ds) |-> ds[i].val])

\* The request context: whether transactionsKey holds a value, and the
\* slice it holds.
Ctx(s, txs) == [set |-> s, transactions |-> txs]

EmptyCtx == Ctx(FALSE, <<>>)

\* ioutil.ReadAll(r.Body): every byte left in the stream, which is then at
\* its end.
readAll(stream) == [bytes |-> stream, rest |-> EmptyBody]

\* r.Body left as ioutil.ReadAll leaves it, at its end.
bodyLeftDrained(jsonBytes) == EmptyBody

\* ioutil.NopCloser(bytes.NewBuffer(jsonBytes)): a fresh stream over the
\* bytes just read.
restoreBody(jsonBytes) == jsonBytes

\* What one call of getTransactions comes to: the slice, the context and the
\* error it returns, what r.Body yields after it, and whether it read r.Body.
Extracted(txs, c, e, b, rd) ==
    [transactions |-> txs, ctx |-> c, err |-> e, body |-> b, read |-> rd]

\* getTransactions as the middleware of the first versions read the body:
\* every body is decoded as one Transaction, whatever it begins with.
getTransactionsAlwaysDecode(stream, ctx) ==
    IF ~ctx.set
    THEN LET jsonBytes == readAll(stream).bytes
             d == unmarshalTransaction(jsonBytes)
         IN  IF d.err
             THEN Extracted(<<>>, EmptyCtx, "PARSE_ERROR", restoreBody(jsonBytes), TRUE)
             ELSE Extracted(d.val, Ctx(TRUE, d.val), "", restoreBody(jsonBytes), TRUE)
    ELSE Extracted(ctx.transactions, ctx, "", stream, FALSE)

\* getTransactions(r): with no value under transactionsKey the body is read
\* and decoded by its leading token and the slice is stored in a new
\* context; otherwise the stored slice is returned.  stream is what r.Body
\* yields to ioutil.ReadAll.
getTransactions(stream, ctx) ==
    IF ~ctx.set
    THEN LET jsonBytes == readAll(stream).bytes
             body == restoreBody(jsonBytes)
         IN  IF hasPrefix(jsonBytes, "{")
             THEN LET d == unmarshalTransaction(jsonBytes)
                  IN  IF d.err THEN Extracted(<<>>, EmptyCtx, "PARSE_ERROR", body, TRUE)
                      ELSE Extracted(d.val, Ctx(TRUE, d.val), "", body, TRUE)
             ELSE IF hasPrefix(jsonBytes, "[")
             THEN LET d == unmarshalTransactions(jsonBytes)
                  IN  IF d.err THEN Extracted(<<>>, EmptyCtx, "PARSE_ERROR", body, TRUE)
                      ELSE Extracted(d.val, Ctx(TRUE, d.val), "", body, TRUE)
             ELSE Extracted(<<>>, Ctx(TRUE, <<>>), "", body, TRUE)
    ELSE Extracted(ctx.transactions, ctx, "", stream, FALSE)

\* --------------------------------------------------------- configuration

\* A relay endpoint of appConfig.LogEndpoints: a base URL that does or does
\* not already contain the relay path.
Endpoint(u, p) == [base |-> u, hasRelayPath |-> p]

\* appConfig.  The upstream address is fixed; the rule thresholds, the
\* blacklist and the relay endpoints vary.  ContractBlackList is a Go
\* map[string]bool: the set of its <<key, value>> entries.
Config(bl, sigs, size, txs, eps) ==
    [ NodeosProtocol |-> "http", NodeosURL |-> "localhost", NodeosPort |-> "8888",
      ContractBlackList |-> bl,
      MaxSignatures |-> sigs,
      MaxTransactionSize |-> size,
      MaxTransactions |-> txs,
      LogEndpoints |-> eps ]

BlackLists == {{}, {<<"currency", TRUE>>}, {<<"currency", FALSE>>}}

LogEndpointLists == {<<>>, <<Endpoint("http://relay:8080", FALSE)>>}

\* Section 3 of the specification: the thresholds are non-negative
\* integers, 0 included.
Thresholds == 0..MaxThreshold

Configs ==
    {Config(bl, sigs, size, txs, eps) :
        bl \in BlackLists, sigs \in Thresholds, size \in Thresholds,
        txs \in Thresholds, eps \in LogEndpointLists}

\* The entries a logEndpoints list is made of: a base URL, and a URL that
\* already names the relay path.
Endpoints ==
    { Endpoint("http://relay:8080", FALSE),
      Endpoint("http://ban.example:8080/patroneos/fail2ban-relay", TRUE) }

\* Configurations of a filter deployed with relays: any list of endpoints,
\* repeated entries included, and the thresholds at 1 or at their largest.
DeployedConfigs ==
    {Config(bl, t, t, t, eps) :
        bl \in {{}, {<<"currency", TRUE>>}}, t \in {1, MaxThreshold},
        eps \in SeqsUpTo(Endpoints, MaxEndpoints)}

\* ----------------------------------------------------- configuration text

\* A member of a JSON object: its name, the JSON type of its value
\* ("string", "number", "object" or "array") and the value.
Member(name, t, v) == [name |-> name, t |-> t, v |-> v]

\* The text of a configuration: a JSON object with its members in the order
\* they are written, or bytes that are not JSON.
ConfigJSON(kind, members) == [kind |-> kind, members |-> members]

\* The fields of the Config struct the filter reads: the json tag, the
\* field, and the JSON type the field's Go type decodes from.
ConfigFields ==
    << <<"nodeosProtocol", "NodeosProtocol", "string">>,
       <<"nodeosUrl", "NodeosURL", "string">>,
       <<"nodeosPort", "NodeosPort", "string">>,
       <<"contractBlackList", "ContractBlackList", "object">>,
       <<"maxSignatures", "MaxSignatures", "number">>,
       <<"maxTransactionSize", "MaxTransactionSize", "number">>,
       <<"maxTransactions", "MaxTransactions", "number">>,
       <<"logEndpoints", "LogEndpoints", "array">> >>

tagged(name) == {i \in 1..Len(ConfigFields) : ConfigFields[i][1] = name}

fieldOf(name) == ConfigFields[CHOOSE i \in tagged(name) : TRUE]

\* json.Unmarshal reports an UnmarshalTypeError for a member whose value
\* is not of the JSON type its field decodes from.
mistyped(m) == tagged(m.name) # {} /\ m.t # fieldOf(m.name)[3]

\* json.Unmarshal decodes a JSON object into a map that exists already by
\* storing the object's entries in it: the keys the object does not name
\* keep their values.
mergeMap(old, new) == {e \in old : \A n \in new : n[1] # e[1]} \cup new

\* A store that lets no negative number through.
storeMemberValidated(cfg, m) ==
    IF tagged(m.name) = {} \/ mistyped(m) \/ (m.t = "number" /\ m.v < 0) THEN cfg
    ELSE IF m.t = "object"
         THEN [cfg EXCEPT ![fieldOf(m.name)[2]] = mergeMap(@, m.v)]
         ELSE [cfg EXCEPT ![fieldOf(m.name)[2]] = m.v]

\* json.Unmarshal(body, &appConfig) on one member of the body: a member no
\* field is tagged with is ignored, a mistyped one is skipped, and any other
\* is stored in its field: a string, a number and an array replace what the
\* field held, an object is merged into the map.
storeMember(cfg, m) ==
    IF tagged(m.name) = {} \/ mistyped(m) THEN cfg
    ELSE IF m.t = "object"
         THEN [cfg EXCEPT ![fieldOf(m.name)[2]] = mergeMap(@, m.v)]
         ELSE [cfg EXCEPT ![fieldOf(m.name)[2]] = m.v]

RECURSIVE storeMembers(_, _)
storeMembers(cfg, ms) ==
    IF ms = <<>> THEN cfg ELSE storeMembers(storeMember(cfg, Head(ms)), Tail(ms))

\* json.Unmarshal(body, &cfg): the value cfg holds afterwards and whether an
\* error is returned.  Bytes that are not JSON are refused before anything
\* is stored; otherwise the members are stored one after the other, in the
\* order of the text, and the error is the first mistyped member's.
unmarshalConfig(b, cfg) ==
    IF b.kind # "object" THEN [cfg |-> cfg, err |-> TRUE]
    ELSE [ cfg |-> storeMembers(cfg, b.members),
           err |-> \E i \in 1..Len(b.members) : mistyped(b.members[i]) ]

\* The zero value of Config.
ZeroConfig ==
    [ NodeosProtocol |-> "", NodeosURL |-> "", NodeosPort |-> "",
      ContractBlackList |-> {},
      MaxSignatures |-> 0,
      MaxTransactionSize |-> 0,
      MaxTransactions |-> 0,
      LogEndpoints |-> <<>> ]

\* json.MarshalIndent(appConfig, "", "    "): every field, in the order of
\* the struct.
marshalConfig(cfg) ==
    ConfigJSON("object",
        [i \in 1..Len(ConfigFields) |->
            Member(ConfigFields[i][1], ConfigFields[i][3], cfg[ConfigFields[i][2]])])

\* parseConfigFile: the configuration a text describes is what
\* json.Unmarshal makes of it in a Config that holds nothing yet.
parseConfigFile(b) == unmarshalConfig(b, ZeroConfig).cfg

\* ---------------------------------------------------------------- request

\* The inbound *http.Request: method, URL, the X-Forwarded-For header ("" when
\* absent), the connection address and the bytes of the body that reach
\* the server.
\* URL is r.URL.String(): the path, and the query string after a "?".
RequestTo(method, path, query, xff, b) ==
    [ Method |-> method, Path |-> path,
      URL |-> IF query = "" THEN path ELSE path \o "?" \o query,
      XForwardedFor |-> xff, RemoteAddr |-> "192.168.0.1", body |-> b ]

Request(xff, b) == RequestTo("POST", "/v1/chain/push_transaction", "", xff, b)

Requests == {Request(xff, b) : xff \in {"", "203.0.113.7"}, b \in Bodies}

\* The bodies sent to a deployed filter: every kind, with at most one element
\* in an array.
WireBodies ==
    {EmptyBody, ScalarBody} \cup MalformedBodies \cup ObjectBodies
        \cup {Body("array", "[", its) : its \in SeqsUpTo(JSONElements, 1)}

\* The pattern addFilterHandlers mounts the relay handler under.
RelayPath == "/patroneos/fail2ban-relay"

\* Requests to a deployed filter: either method, an RPC path with or
\* without a query string or the relay path, with or without
\* X-Forwarded-For.
DeployedRequests ==
    {RequestTo(m, u[1], u[2], xff, b) :
        m \in {"POST", "GET"},
        u \in { <<"/v1/chain/push_transaction", "">>,
                <<"/v1/chain/get_block", "num=5&verbose=1">>,
                <<RelayPath, "">> },
        xff \in {"", "203.0.113.7"},
        b \in WireBodies}

\* getHost taking the connection address whatever the headers are.
getHostRemoteAddr(r) == r.RemoteAddr

\* getHost(r)
getHost(r) == IF r.XForwardedFor # "" THEN r.XForwardedFor ELSE r.RemoteAddr

\* --------------------------------------------------------- event reporter

\* Log{Host, Success, Message}
Log(host, success, message) == [Host |-> host, Success |-> success, Message |-> message]

\* The address an event is posted to: the relay path is appended unless the
\* configured endpoint already contains it.
relayURL(logAgent) ==
    IF ~logAgent.hasRelayPath
    THEN Endpoint(logAgent.base \o "/patroneos/fail2ban-relay", TRUE)
    ELSE logAgent

\* The client.Post calls of logFailure and logSuccess, one per entry of
\* appConfig.LogEndpoints, in order.
relayPosts(cfg, host, success, message) ==
    [i \in 1..Len(cfg.LogEndpoints) |->
        [url |-> relayURL(cfg.LogEndpoints[i]), event |-> Log(host, success, message)]]

\* The servers behind the relay URLs, as one request finds them: "up"
\* answers a post, "down" makes client.Post return an error, "silent" takes
\* the connection and never answers (client is an http.Client with no
\* Timeout, so client.Post does not return).
RelayURLs == {relayURL(e) : e \in Endpoints}

RelaysUp == [u \in RelayURLs |-> "up"]

RelaysUpOrDown == [RelayURLs -> {"up", "down"}]

RelaysAny == [RelayURLs -> {"up", "down", "silent"}]

\* The posts made, in order, up to and including the first that does not
\* return; err is what client.Post returned.
Posted(posts, net, last) ==
    [i \in 1..last |->
        [url |-> posts[i].url, event |-> posts[i].event, err |-> net[posts[i].url] # "up"]]

Delivered(made, returned) == [made |-> made, returned |-> returned]

\* The relay loop giving up at the first post that returns an error.
deliverUntilError(posts, net) ==
    LET stopped == {i \in 1..Len(posts) : net[posts[i].url] # "up"}
    IN  IF stopped = {}
        THEN Delivered(Posted(posts, net, Len(posts)), TRUE)
        ELSE LET first == CHOOSE i \in stopped : \A j \in stopped : i <= j
             IN  Delivered(Posted(posts, net, first), net[posts[first].url] = "down")

\* The relay loop posting once more to every endpoint whose post failed.
deliverWithRetry(posts, net) ==
    LET stalled == {i \in 1..Len(posts) : net[posts[i].url] = "silent"}
        failed(p) == p.err
    IN  IF stalled = {}
        THEN Delivered(Posted(posts, net, Len(posts))
                          \o SelectSeq(Posted(posts, net, Len(posts)), failed),
                       TRUE)
        ELSE Delivered(Posted(posts, net, CHOOSE i \in stalled : \A j \in stalled : i <= j),
                       FALSE)

\* The relay loop of logFailure and logSuccess: every post is made, an
\* error is logged and the loop goes on; the loop returns unless a post
\* does not.
deliver(posts, net) ==
    LET stalled == {i \in 1..Len(posts) : net[posts[i].url] = "silent"}
    IN  IF stalled = {}
        THEN Delivered(Posted(posts, net, Len(posts)), TRUE)
        ELSE Delivered(Posted(posts, net, CHOOSE i \in stalled : \A j \in stalled : i <= j),
                       FALSE)

\* json.Marshal(ErrorMessage{Message: message, Code: code})
marshalErrorMessage(message, code) ==
    "{\"message\":\"" \o message \o "\",\"code\":" \o ToString(code) \o "}"

Response(status, headers, body) == [status |-> status, headers |-> headers, body |-> body]

\* logFailure writing the status and the body without the X-REJECTED-BY
\* header.
errorResponseWithoutRejectedBy(message) ==
    Response(400, {<<"CONTENT-TYPE", "application/json">>}, marshalErrorMessage(message, 400))

\* What logFailure writes to a non-nil ResponseWriter.
errorResponse(message) ==
    Response(400,
             {<<"X-REJECTED-BY", "patroneos">>, <<"CONTENT-TYPE", "application/json">>},
             marshalErrorMessage(message, 400))

\* ------------------------------------------------------------------ rules

\* validateJSON without the len(jsonBytes) > 0 guard.
invalidJSONNoLengthGuard(jsonBytes, err) == ~jsonValid(jsonBytes) \/ err

\* validateJSON without the err != nil disjunct.
invalidJSONIgnoresReadError(jsonBytes, err) == nonEmpty(jsonBytes) /\ ~jsonValid(jsonBytes)

\* validateJSON: the body is refused when it is not empty and either is not
\* JSON or could not be read to its end.
invalidJSON(jsonBytes, err) == nonEmpty(jsonBytes) /\ (~jsonValid(jsonBytes) \/ err)

\* validateMaxTransactions comparing with >= in place of >.
tooManyTransactionsOffByOne(transactions, cfg) == Len(transactions) >= cfg.MaxTransactions

\* validateMaxTransactions reading a maximum of 0 as no maximum.
tooManyTransactionsZeroUnlimited(transactions, cfg) ==
    cfg.MaxTransactions > 0 /\ Len(transactions) > cfg.MaxTransactions

\* validateMaxTransactions
tooManyTransactions(transactions, cfg) == Len(transactions) > cfg.MaxTransactions

\* validateTransactionSize comparing with >= in place of >.
transactionTooLargeOffByOne(transactions, cfg) ==
    \E t \in 1..Len(transactions) :
        \E a \in 1..Len(transactions[t].Actions) :
            Len(transactions[t].Actions[a].Data) >= cfg.MaxTransactionSize

\* validateTransactionSize
transactionTooLarge(transactions, cfg) ==
    \E t \in 1..Len(transactions) :
        \E a \in 1..Len(transactions[t].Actions) :
            Len(transactions[t].Actions[a].Data) > cfg.MaxTransactionSize

\* validateMaxSignatures looking at the first transaction of the batch only.
tooManySignaturesFirstOnly(transactions, cfg) ==
    /\ Len(transactions) > 0
    /\ Len(transactions[1].Signatures) > cfg.MaxSignatures

\* validateMaxSignatures
tooManySignatures(transactions, cfg) ==
    \E t \in 1..Len(transactions) :
        Len(transactions[t].Signatures) > cfg.MaxSignatures

\* A lookup that takes the boolean stored under the key for the answer.
existsWithTrue(blackList, code) == \E entry \in blackList : entry[1] = code /\ entry[2]

\* _, exists := appConfig.ContractBlackList[code]
exists(blackList, code) == \E entry \in blackList : entry[1] = code

\* validateContract looking at the first action of each transaction only.
blacklistedContractFirstActionOnly(transactions, cfg) ==
    \E t \in 1..Len(transactions) :
        /\ Len(transactions[t].Actions) > 0
        /\ exists(cfg.ContractBlackList, transactions[t].Actions[1].Code)

\* validateContract
blacklistedContract(transactions, cfg) ==
    \E t \in 1..Len(transactions) :
        \E a \in 1..Len(transactions[t].Actions) :
            exists(cfg.ContractBlackList, transactions[t].Actions[a].Code)

\* --------------------------------------------------------------- pipeline

\* The middleware list with validateContract moved ahead of the other
\* transaction rules.
FilterChainContractFirst ==
    << "validateJSON", "validateContract", "validateMaxTransactions",
       "validateTransactionSize", "validateMaxSignatures" >>

\* The middleware list with validateContract left out.
FilterChainWithoutContract ==
    << "validateJSON", "validateMaxTransactions", "validateTransactionSize",
       "validateMaxSignatures" >>

\* The middleware list addFilterHandlers passes to chainMiddleware.
FilterChain ==
    << "validateJSON", "validateMaxTransactions", "validateTransactionSize",
       "validateMaxSignatures", "validateContract" >>

\* chainMiddleware(mw...)(final): position i of the composed handler is
\* mw[i] for i in 1..len(mw), and final after the last middleware.
handlerAt(chain, fin, i) == IF i <= Len(chain) THEN chain[i] ELSE fin

\* next.ServeHTTP(w, r) in the middleware at position i: the handler it was
\* wrapped around.
nextPosition(i) == i + 1

\* A middleware that reports the failure and goes on to the next handler.
fallThroughAfterFailure(i) == i + 1

\* The return after logFailure in a middleware at position i: the request
\* goes no further (0: the handler has returned).
returnAfterFailure(i) == 0

\* The position of a handler that is inside a call that does not return.
Suspended == -1

\* A request passed on as r, without the context getTransactions returned.
withContextDropped(old, new) == old

\* r.WithContext(ctx): the request the next handler gets carries ctx.
withContext(old, new) == new

VARIABLES
    appConfig,  \* the process-wide configuration
    relays,     \* the relay servers, as the request finds them
    r,          \* the inbound request
    rBody,      \* what r.Body still yields
    ctx,        \* the value under transactionsKey in r.Context()
    mw,         \* the middleware list the handler was composed from
    final,      \* the handler the chain ends in
    pc,         \* position of the request in the chain; 0: returned
    ran,        \* the handlers invoked for the request, in order, each
                \* with what it came to: "next" (it called the next
                \* handler), "done" (a final handler) or the reason it
                \* reported
    readErr,    \* whether validateJSON's ioutil.ReadAll returned an error
    extractions,\* the calls of getTransactions, in order: the caller,
                \* whether the call read r.Body, the slice it returned
    resp,       \* the responses written to the client
    events,     \* the events posted to relay endpoints
    upstream,   \* the requests sent to the upstream node
    roundTrips, \* what http.NewRequest and client.Do came to
    configRead, \* the value of appConfig each invoked handler found, in
                \* the order of ran
    parked,     \* the requests in flight whose goroutine is not the one
                \* running: the state of each as its goroutine left it
    configFile, \* the bytes of the configuration file
    post,       \* the configuration POST being served, if any
    configReplies, \* the answers given to configuration GETs
    logFile,    \* the lines of the relay's log file
    stdLog,     \* the lines the relay wrote to standard logging
    built       \* the middleware wrappers the process has built so far

vars ==
    << appConfig, relays, r, rBody, ctx, mw, final, pc, ran, readErr, extractions,
       resp, events, upstream, roundTrips, configRead, parked, configFile, post,
       configReplies, logFile, stdLog, built >>

\* What the handlers of the filter pipeline leave alone: the other requests
\* in flight, the configuration endpoint and the log of the relay role.
offPipeline == <<parked, configFile, post, configReplies, logFile, stdLog>>

\* The handler being invoked reads the process-wide configuration.
ReadConfig == configRead' = Append(configRead, appConfig)

\* The handler chainMiddleware(mw...)(final) returns, as the server calls
\* it for a request: for i from len(mw)-1 down to 0, last = mw[i](last),
\* one wrapper built per middleware, and then last(w, r), the first
\* handler of the chain, which is the action this is part of.  A handler
\* called by next.ServeHTTP builds nothing, and neither does a middleware
\* the tests wrap around getTestHandler() before a request comes.
chainMiddleware ==
    built' = IF pc = 1 /\ final = "forwardCallToNodeos" THEN built + Len(mw) ELSE built

Invocation(handler, outcome) == [handler |-> handler, outcome |-> outcome]

Extraction(by, rd, txs) == [by |-> by, read |-> rd, transactions |-> txs]

Running(name) ==
    /\ pc \in 1..(Len(mw) + 1)
    /\ handlerAt(mw, final, pc) = name

\* logFailure(message, w, r); return
Reject(message) ==
    LET sent == deliver(relayPosts(appConfig, getHost(r), FALSE, message), relays)
    IN  /\ events' = events \o sent.made
        /\ IF sent.returned
           THEN /\ resp' = Append(resp, errorResponse(message))
                /\ pc' = returnAfterFailure(pc)
           ELSE /\ resp' = resp
                /\ pc' = Suspended

\* next.ServeHTTP(w, r)
CallNext ==
    /\ pc' = nextPosition(pc)
    /\ UNCHANGED <<events, resp>>

validateJSON ==
    /\ Running("validateJSON")
    /\ \E err \in BOOLEAN :
        LET jsonBytes == readAll(rBody).bytes
        IN  /\ readErr' = err
            /\ rBody' = restoreBody(jsonBytes)
            /\ IF invalidJSON(jsonBytes, err)
               THEN /\ Reject("INVALID_JSON")
                    /\ ran' = Append(ran, Invocation("validateJSON", "INVALID_JSON"))
               ELSE /\ CallNext
                    /\ ran' = Append(ran, Invocation("validateJSON", "next"))
    /\ ReadConfig
    /\ chainMiddleware
    /\ UNCHANGED <<appConfig, relays, r, ctx, mw, final, extractions, upstream, roundTrips>>
    /\ UNCHANGED offPipeline

\* The shape shared by the four middleware that read the transactions:
\* a failure event for the error of getTransactions (got), else one for the
\* rule when it is violated, else the next handler called with the context
\* getTransactions returned.
transactionRule(name, got, violated, reason) ==
    /\ rBody' = got.body
    /\ extractions' = Append(extractions, Extraction(name, got.read, got.transactions))
    /\ IF got.err # ""
       THEN /\ Reject(got.err)
            /\ ctx' = ctx
            /\ ran' = Append(ran, Invocation(name, got.err))
       ELSE IF violated
            THEN /\ Reject(reason)
                 /\ ctx' = ctx
                 /\ ran' = Append(ran, Invocation(name, reason))
            ELSE /\ CallNext
                 /\ ctx' = withContext(ctx, got.ctx)
                 /\ ran' = Append(ran, Invocation(name, "next"))
    /\ ReadConfig
    /\ chainMiddleware
    /\ UNCHANGED <<appConfig, relays, r, mw, final, readErr, upstream, roundTrips>>
    /\ UNCHANGED offPipeline

validateMaxTransactions ==
    /\ Running("validateMaxTransactions")
    /\ LET got == getTransactions(rBody, ctx)
       IN  transactionRule("validateMaxTransactions", got,
                           tooManyTransactions(got.transactions, appConfig),
                           "TOO_MANY_TRANSACTIONS")

validateTransactionSize ==
    /\ Running("validateTransactionSize")
    /\ LET got == getTransactions(rBody, ctx)
       IN  transactionRule("validateTransactionSize", got,
                           transactionTooLarge(got.transactions, appConfig),
                           "INVALID_TRANSACTION_SIZE")

validateMaxSignatures ==
    /\ Running("validateMaxSignatures")
    /\ LET got == getTransactions(rBody, ctx)
       IN  transactionRule("validateMaxSignatures", got,
                           tooManySignatures(got.transactions, appConfig),
                           "INVALID_NUMBER_SIGNATURES")

validateContract ==
    /\ Running("validateContract")
    /\ LET got == getTransactions(rBody, ctx)
       IN  transactionRule("validateContract", got,
                           blacklistedContract(got.transactions, appConfig),
                           "BLACKLISTED_CONTRACT")

\* -------------------------------------------------------------- forwarder

\* What the upstream call comes to: http.NewRequest fails, client.Do fails,
\* or the node answers.
Outcome(e, resp0) == [err |-> e, res |-> resp0]

\* res.Header; Set-Cookie has two values.
NodeosHeaders ==
    { <<"Content-Type", "application/json">>, <<"Content-Length", "17">>,
      <<"Set-Cookie", "a=1">>, <<"Set-Cookie", "b=2">> }

NodeosResponses ==
    { Response(200, NodeosHeaders, "{\"processed\":{}}"),
      Response(500, NodeosHeaders, "{\"error\":\"...\"}") }

UpstreamOutcomes ==
    {Outcome("NewRequest", Response(0, {}, "")), Outcome("Do", Response(0, {}, ""))}
        \cup {Outcome("", res) : res \in NodeosResponses}

\* copyHeaders using Set in place of Add: one value of each header is kept.
copyHeadersSet(response, request) ==
    response \cup
        {h \in request :
            /\ h[1] # "Content-Length"
            /\ h = CHOOSE g \in request : g[1] = h[1]}

\* copyHeaders(response, request)
copyHeaders(response, request) ==
    response \cup {h \in request : h[1] # "Content-Length"}

\* http.NewRequest(method, url, body) as forwardCallToNodeos builds it
outboundRequest(cfg, req, body) ==
    [ Method |-> req.Method,
      URL |-> cfg.NodeosProtocol \o "://" \o cfg.NodeosURL \o ":" \o cfg.NodeosPort \o req.URL,
      body |-> body ]

\* The requests that reach client.Do: none when http.NewRequest failed,
\* else the one request, once.
upstreamCalls(out, request) ==
    IF out.err = "NewRequest" THEN <<>> ELSE <<request>>

\* A success reported before the status of the answer is looked at, and a
\* failure after it.
forwardPostsSuccessFirst(cfg, host, res) ==
    relayPosts(cfg, host, TRUE, "SUCCESS")
        \o (IF res.status = 200 THEN <<>>
            ELSE relayPosts(cfg, host, FALSE, "TRANSACTION_FAILED"))

\* The event reported as a success whatever the node answered.
forwardPostsAlwaysSuccess(cfg, host, res) == relayPosts(cfg, host, TRUE, "SUCCESS")

\* logSuccess("SUCCESS", r) for status 200, logFailure("TRANSACTION_FAILED",
\* nil, r) for any other.
forwardPosts(cfg, host, res) ==
    IF res.status = 200
    THEN relayPosts(cfg, host, TRUE, "SUCCESS")
    ELSE relayPosts(cfg, host, FALSE, "TRANSACTION_FAILED")

\* copyHeaders(w.Header(), res.Header); w.WriteHeader(res.StatusCode);
\* w.Write(body)
forwardWrites(res) == Response(res.status, copyHeaders({}, res.headers), res.body)

\* A transport error answered with a response of the filter's own.
transportErrorWritesBadGateway(out) ==
    IF out.err # "" THEN <<Response(502, {}, "")>> ELSE <<>>

\* What forwardCallToNodeos writes on an error of http.NewRequest or
\* client.Do: nothing.
transportErrorWrites(out) == <<>>

forwardCallToNodeos ==
    /\ Running("forwardCallToNodeos")
    /\ LET body == readAll(rBody).bytes
           request == outboundRequest(appConfig, r, body)
       IN  /\ rBody' = readAll(rBody).rest
           /\ \E out \in UpstreamOutcomes :
                /\ roundTrips' = Append(roundTrips, out)
                /\ upstream' = upstream \o upstreamCalls(out, request)
                /\ IF out.err # ""
                   THEN /\ events' = events
                        /\ resp' = resp \o transportErrorWrites(out)
                        /\ pc' = 0
                   ELSE LET sent == deliver(forwardPosts(appConfig, getHost(r), out.res), relays)
                        IN  /\ events' = events \o sent.made
                            /\ IF sent.returned
                               THEN /\ resp' = Append(resp, forwardWrites(out.res))
                                    /\ pc' = 0
                               ELSE /\ resp' = resp
                                    /\ pc' = Suspended
    /\ ran' = Append(ran, Invocation("forwardCallToNodeos", "done"))
    /\ ReadConfig
    /\ UNCHANGED built
    /\ UNCHANGED <<appConfig, relays, r, ctx, mw, final, readErr, extractions>>
    /\ UNCHANGED offPipeline

\* getTestHandler(): the stand-in next handler of the middleware tests
testHandler ==
    /\ Running("testHandler")
    /\ resp' = Append(resp, Response(200, {}, "SUCCESS\n"))
    /\ pc' = 0
    /\ ran' = Append(ran, Invocation("testHandler", "done"))
    /\ ReadConfig
    /\ UNCHANGED built
    /\ UNCHANGED << appConfig, relays, r, rBody, ctx, mw, final, readErr, extractions,
                    events, upstream, roundTrips >>
    /\ UNCHANGED offPipeline

\* ----------------------------------------------------------- relay route

relayMessage ==
    "Patroneos cannot receive fail2ban relay requests when running in filter mode. Please check your config."

\* relay(w, r): status 403 and the message; r is not read.
relay ==
    /\ Running("relay")
    /\ resp' = Append(resp, Response(403, {}, marshalErrorMessage(relayMessage, 403)))
    /\ pc' = 0
    /\ ran' = Append(ran, Invocation("relay", "done"))
    /\ ReadConfig
    /\ UNCHANGED built
    /\ UNCHANGED << appConfig, relays, r, rBody, ctx, mw, final, readErr, extractions,
                    events, upstream, roundTrips >>
    /\ UNCHANGED offPipeline

\* A handler composed by chainMiddleware(chain...)(fin).
Handler(chain, fin) == [mw |-> chain, final |-> fin]

\* A mux with the one pattern "/".
serveMuxRootOnly(path) == Handler(FilterChain, "forwardCallToNodeos")

\* The mux addFilterHandlers fills: the relay path is served by relay, any
\* other path by the middleware chain around forwardCallToNodeos.
serveMux(path) ==
    IF path = RelayPath
    THEN Handler(<<>>, "relay")
    ELSE Handler(FilterChain, "forwardCallToNodeos")

\* ---------------------------------------------------- concurrent requests

\* What the goroutine serving the request holds.
requestState ==
    [ r |-> r, rBody |-> rBody, ctx |-> ctx, mw |-> mw, final |-> final, pc |-> pc,
      ran |-> ran, readErr |-> readErr, extractions |-> extractions, resp |-> resp,
      events |-> events, upstream |-> upstream, roundTrips |-> roundTrips,
      configRead |-> configRead ]

\* One cache of transactions for the process: a handler finds what the
\* handler that ran last left.
contextOfProcess(own, last) == last

\* r.Context(): the context a handler finds is the one of its own request.
contextOfRequest(own, last) == own

\* net/http serves every request in a goroutine of its own: the handlers
\* of another request in flight run next.
schedule ==
    /\ parked # <<>>
    /\ LET q == Head(parked)
       IN  /\ r' = q.r
           /\ rBody' = q.rBody
           /\ ctx' = contextOfRequest(q.ctx, ctx)
           /\ mw' = q.mw
           /\ final' = q.final
           /\ pc' = q.pc
           /\ ran' = q.ran
           /\ readErr' = q.readErr
           /\ extractions' = q.extractions
           /\ resp' = q.resp
           /\ events' = q.events
           /\ upstream' = q.upstream
           /\ roundTrips' = q.roundTrips
           /\ configRead' = q.configRead
           /\ parked' = Append(Tail(parked), requestState)
    /\ UNCHANGED <<appConfig, relays, configFile, post, configReplies, logFile, stdLog, built>>

\* --------------------------------------------------- configuration route

\* What the configuration handler leaves alone: the requests in the filter
\* pipeline and the log of the relay role.
offConfig ==
    << relays, r, rBody, ctx, mw, final, pc, ran, readErr, extractions, resp,
       events, upstream, roundTrips, configRead, parked, logFile, stdLog, built >>

\* The configuration POST of a behaviour: "waiting" until the handler is
\* invoked, "storing" while json.Unmarshal stores into appConfig, "writing"
\* before ioutil.WriteFile, "done" once the handler has returned.  With it
\* its body, the member json.Unmarshal stores next, whether an error is
\* pending, appConfig and the file as the handler found them, and whether
\* the file was written.
Post(phase, b, next, err, cfg, file, written) ==
    [ phase |-> phase, body |-> b, next |-> next, err |-> err,
      before |-> cfg, fileBefore |-> file, written |-> written ]

NoPost ==
    Post("waiting", ConfigJSON("object", <<>>), 0, FALSE, ZeroConfig,
         ConfigJSON("object", <<>>), FALSE)

\* The configurations a filter serving its configuration route starts with.
ServedConfigs ==
    { Config({<<"currency", TRUE>>}, 1, 1, 1, <<>>),
      Config({}, MaxThreshold, MaxThreshold, MaxThreshold,
             <<Endpoint("http://ban.example:8080/patroneos/fail2ban-relay", TRUE)>>) }

\* The bodies of configuration POSTs: bytes that are not JSON, a whole
\* configuration, and objects that name some of the fields: a negative
\* threshold, a threshold and a mistyped one, a threshold and the relay
\* endpoints, and a blacklist.
ConfigBodies ==
    { ConfigJSON("malformed", <<>>),
      marshalConfig(Config({<<"tokens", TRUE>>}, MaxThreshold, MaxThreshold, MaxThreshold, <<>>)),
      ConfigJSON("object", <<Member("maxTransactions", "number", -1)>>),
      ConfigJSON("object", << Member("maxTransactions", "number", 0),
                              Member("maxSignatures", "string", "many") >>),
      ConfigJSON("object", << Member("maxTransactions", "number", 0),
                              Member("logEndpoints", "array",
                                     <<Endpoint("http://relay:8080", FALSE)>>) >>),
      ConfigJSON("object", <<Member("contractBlackList", "object", {<<"tokens", TRUE>>})>>) }

\* updateConfig, r.Method == "POST", up to the first store of
\* json.Unmarshal(body, &appConfig): the body is read and scanned; bytes
\* that are not JSON are logged and the handler returns.
updateConfigPOST ==
    /\ post.phase = "waiting"
    /\ \E b \in ConfigBodies :
          post' = Post(IF b.kind # "object" THEN "done"
                       ELSE IF b.members = <<>> THEN "writing" ELSE "storing",
                       b, 1, b.kind # "object", appConfig, configFile, FALSE)
    /\ UNCHANGED <<appConfig, configFile, configReplies>>
    /\ UNCHANGED offConfig

\* json.Unmarshal(body, &appConfig) stores the next member of the body in
\* appConfig.  After the last member the handler returns if an error is
\* pending, and goes on to write the file otherwise.
unmarshalStore ==
    /\ post.phase = "storing"
    /\ LET m == post.body.members[post.next]
           last == post.next = Len(post.body.members)
           err == post.err \/ mistyped(m)
       IN /\ appConfig' = storeMember(appConfig, m)
          /\ post' = [post EXCEPT
                        !.next = @ + 1,
                        !.err = err,
                        !.phase = IF ~last THEN "storing"
                                  ELSE IF err THEN "done" ELSE "writing"]
    /\ UNCHANGED <<configFile, configReplies>>
    /\ UNCHANGED offConfig

\* ioutil.WriteFile(configFile, body, 0644): the file holds the body, or the
\* write fails and the file is as it was or is cut short.
writeConfigFile ==
    /\ post.phase = "writing"
    /\ \E outcome \in {"written", "refused", "cut"} :
          /\ configFile' = CASE outcome = "written" -> post.body
                             [] outcome = "refused" -> configFile
                             [] outcome = "cut" -> ConfigJSON("malformed", <<>>)
          /\ post' = [post EXCEPT !.phase = "done", !.written = outcome = "written"]
    /\ UNCHANGED <<appConfig, configReplies>>
    /\ UNCHANGED offConfig

\* The answer to a configuration GET, with the phase of the POST when the
\* answer was made.
Reply(phase, b) == [phase |-> phase, body |-> b]

\* updateConfig, r.Method == "GET": the response body is appConfig as JSON.
\* A behaviour has one GET, served at any point.
updateConfigGET ==
    /\ configReplies = <<>>
    /\ configReplies' = Append(configReplies, Reply(post.phase, marshalConfig(appConfig)))
    /\ UNCHANGED <<appConfig, configFile, post>>
    /\ UNCHANGED offConfig

\* ---------------------------------------------------------- relay receiver

\* A Go string is the sequence of its lines: what stands between its line
\* breaks.  A string without a line break is a sequence of one.
joinText(a, b) ==
    SubSeq(a, 1, Len(a) - 1) \o <<a[Len(a)] \o Head(b)>> \o Tail(b)

\* The body of a request to the relay: an object with the members host,
\* success and message ("object"), null, an object with a member of the
\* wrong type ("mistyped"), no bytes at all ("empty") or bytes that are not
\* JSON ("malformed").
EventJSON(kind, host, success, message) ==
    [kind |-> kind, host |-> host, success |-> success, message |-> message]

\* The messages of the filter, and one with a line break in it.
EventMessages ==
    { <<"SUCCESS">>, <<"BLACKLISTED_CONTRACT">>, <<"">>,
      <<"INVALID_JSON", "2018/07/04 12:00:00 198.51.100.9 false BLACKLISTED_CONTRACT">> }

EventBodies ==
    {EventJSON("object", <<h>>, ok, m) :
        h \in {"192.168.0.1", "203.0.113.7", ""}, ok \in BOOLEAN, m \in EventMessages}
      \cup {EventJSON(k, <<"">>, FALSE, <<"">>) : k \in {"null", "mistyped", "empty", "malformed"}}

\* json.Unmarshal(body, &logEntry), logEntry the zero Log: an object fills
\* the fields, null leaves them, anything else is an error.
unmarshalLog(b) ==
    CASE b.kind = "object" -> [val |-> Log(b.host, b.success, b.message), err |-> FALSE]
      [] b.kind = "null" -> [val |-> Log(<<"">>, FALSE, <<"">>), err |-> FALSE]
      [] OTHER -> [val |-> Log(<<"">>, FALSE, <<"">>), err |-> TRUE]

\* fmt.Sprintf("%s %t %s", logEntry.Host, logEntry.Success, logEntry.Message)
sprintfLog(e) ==
    joinText(joinText(e.Host, <<IF e.Success THEN " true " ELSE " false ">>), e.Message)

\* The date and time log.LstdFlags puts before an entry.
Stamp == "2018/07/04 12:00:00 "

\* (*Logger).Output: the stamp, the text, and a line break unless the text
\* ends in one.  The lines the writer gets.
output(text) ==
    LET s == IF Len(text) > 1 /\ text[Len(text)] = "" THEN SubSeq(text, 1, Len(text) - 1)
             ELSE text
    IN  <<Stamp \o Head(s)>> \o Tail(s)

\* listenForLogs(w, r): the entry goes to the log file and to standard
\* logging; a body json.Unmarshal refuses is logged and nothing else
\* happens.  The handler writes no response: the server answers 200.
listenForLogs ==
    /\ Running("listenForLogs")
    /\ LET body == readAll(rBody)
           d == unmarshalLog(body.bytes)
       IN  /\ rBody' = body.rest
           /\ IF d.err
              THEN /\ stdLog' = stdLog \o output(<<"Error unmarshalling logs">>)
                   /\ logFile' = logFile
              ELSE /\ logFile' = logFile \o output(sprintfLog(d.val))
                   /\ stdLog' = stdLog \o output(sprintfLog(d.val))
    /\ resp' = Append(resp, Response(200, {}, ""))
    /\ pc' = 0
    /\ ran' = Append(ran, Invocation("listenForLogs", "done"))
    /\ ReadConfig
    /\ UNCHANGED built
    /\ UNCHANGED << appConfig, relays, r, ctx, mw, final, readErr, extractions,
                    events, upstream, roundTrips >>
    /\ UNCHANGED <<parked, configFile, post, configReplies>>

\* ---------------------------------------------------------- specifications

\* setConfig() of the middleware tests: no relay endpoints.
TestConfigs == {cfg \in Configs : cfg.LogEndpoints = <<>>}

\* verifyMiddleware posts the body with no X-Forwarded-For header.
TestRequests == {req \in Requests : req.XForwardedFor = ""}

\* A request as it arrives at a handler composed from chain and fin: what
\* the goroutine serving it holds.
Arrived(chain, fin, req) ==
    [ r |-> req, rBody |-> req.body, ctx |-> EmptyCtx, mw |-> chain, final |-> fin,
      pc |-> 1, ran |-> <<>>, readErr |-> FALSE, extractions |-> <<>>, resp |-> <<>>,
      events |-> <<>>, upstream |-> <<>>, roundTrips |-> <<>>, configRead |-> <<>> ]

\* A request arrives at a handler composed from chain and fin, with the
\* requests of others in flight.
ArriveAmong(chain, fin, cfgs, reqs, others) ==
    /\ appConfig \in cfgs
    /\ r \in reqs
    /\ rBody = r.body
    /\ ctx = EmptyCtx
    /\ mw = chain
    /\ final = fin
    /\ pc = 1
    /\ ran = <<>>
    /\ readErr = FALSE
    /\ extractions = <<>>
    /\ resp = <<>>
    /\ events = <<>>
    /\ upstream = <<>>
    /\ roundTrips = <<>>
    /\ configRead = <<>>
    /\ parked = others
    /\ configFile = marshalConfig(appConfig)
    /\ post = NoPost
    /\ configReplies = <<>>
    /\ logFile = <<>>
    /\ stdLog = <<>>
    /\ built = 0

\* A request arrives at a handler composed from chain and fin.
Arrive(chain, fin, cfgs, reqs) == ArriveAmong(chain, fin, cfgs, reqs, <<>>)

\* addFilterHandlers serves "/" by middlewareChain(forwardCallToNodeos); the
\* middleware tests serve it by one middleware around getTestHandler().  The
\* relays answer.
Init ==
    /\ relays = RelaysUp
    /\ \/ Arrive(FilterChain, "forwardCallToNodeos", Configs, Requests)
       \/ \E m \in Range(FilterChain) : Arrive(<<m>>, "testHandler", TestConfigs, TestRequests)

Next ==
    \/ validateJSON
    \/ validateMaxTransactions
    \/ validateTransactionSize
    \/ validateMaxSignatures
    \/ validateContract
    \/ forwardCallToNodeos
    \/ testHandler

Spec == Init /\ [][Next]_vars

\* A request arrives at the mux of a deployed filter.
ArriveAtMux(nets) ==
    /\ relays \in nets
    /\ \E req \in DeployedRequests :
          Arrive(serveMux(req.Path).mw, serveMux(req.Path).final, DeployedConfigs, {req})

\* A deployed filter whose relays answer a post or refuse it.
InitDeployed == ArriveAtMux(RelaysUpOrDown)

NextDeployed ==
    \/ validateJSON
    \/ validateMaxTransactions
    \/ validateTransactionSize
    \/ validateMaxSignatures
    \/ validateContract
    \/ forwardCallToNodeos
    \/ relay

SpecDeployed == InitDeployed /\ [][NextDeployed]_vars

\* A deployed filter some of whose relays may never answer.
InitSilentRelay == ArriveAtMux(RelaysAny)

SpecSilentRelay == InitSilentRelay /\ [][NextDeployed]_vars

\* The bodies sent to a filter while its configuration is being changed.
ServedBodies ==
    { EmptyBody,
      Body("object", "{", <<JSONObject(<<JSONAction("tokens", "a")>>, <<"12345">>)>>),
      Body("object", "{", <<JSONObject(<<JSONAction("currency", "a")>>, <<>>)>>),
      Body("array", "[", <<JSONObject(<<>>, <<>>), JSONObject(<<>>, <<"12345", "12345">>)>>),
      Body("array", "[", <<JSONMistyped>>) }

\* A deployed filter that serves its configuration route while a request
\* goes through the pipeline.
InitConfig ==
    /\ relays = RelaysUp
    /\ Arrive(FilterChain, "forwardCallToNodeos", ServedConfigs,
              {Request("", b) : b \in ServedBodies})

NextConfig ==
    \/ validateJSON
    \/ validateMaxTransactions
    \/ validateTransactionSize
    \/ validateMaxSignatures
    \/ validateContract
    \/ forwardCallToNodeos
    \/ updateConfigPOST
    \/ unmarshalStore
    \/ writeConfigFile
    \/ updateConfigGET

SpecConfig == InitConfig /\ [][NextConfig]_vars

\* A deployed filter with two requests in flight.
InitConcurrent ==
    /\ relays = RelaysUp
    /\ \E other \in {Request("203.0.113.7", b) : b \in ServedBodies} :
          ArriveAmong(FilterChain, "forwardCallToNodeos", ServedConfigs,
                      {Request("", b) : b \in ServedBodies},
                      <<Arrived(FilterChain, "forwardCallToNodeos", other)>>)

NextConcurrent ==
    \/ validateJSON
    \/ validateMaxTransactions
    \/ validateTransactionSize
    \/ validateMaxSignatures
    \/ validateContract
    \/ forwardCallToNodeos
    \/ schedule

SpecConcurrent == InitConcurrent /\ [][NextConcurrent]_vars

\* A process in the relay role: addLogHandlers mounts listenForLogs on "/",
\* and a request of any method comes in.
InitRelay ==
    /\ relays = RelaysUp
    /\ Arrive(<<>>, "listenForLogs", ServedConfigs,
              {RequestTo(m, "/", "", xff, b) :
                  m \in {"POST", "GET"}, xff \in {"", "203.0.113.7"}, b \in EventBodies})

NextRelay == listenForLogs

SpecRelay == InitRelay /\ [][NextRelay]_vars

TypeOK ==
    /\ appConfig \in Configs \cup DeployedConfigs
    /\ r \in Requests \cup DeployedRequests
    /\ pc \in {Suspended} \cup 0..(Len(mw) + 1)
    /\ Len(resp) <= 1

\* ------------------------------------------------------------- properties

\* The request is served by the composed filter pipeline.
Composed == final = "forwardCallToNodeos"

\* The order of the stages as section 4.2 fixes it, ending in the Forwarder.
PipelineOrder ==
    << "validateJSON", "validateMaxTransactions", "validateTransactionSize",
       "validateMaxSignatures", "validateContract", "forwardCallToNodeos" >>

RuleStages ==
    { "validateJSON", "validateMaxTransactions", "validateTransactionSize",
      "validateMaxSignatures", "validateContract" }

TransactionStages == RuleStages \ {"validateJSON"}

Reasons ==
    << "INVALID_JSON", "TOO_MANY_TRANSACTIONS", "INVALID_TRANSACTION_SIZE",
       "INVALID_NUMBER_SIGNATURES", "BLACKLISTED_CONTRACT" >>

Rejections == Range(Reasons) \cup {"PARSE_ERROR"}

Invoked(h) == \E i \in 1..Len(ran) : ran[i].handler = h

Came(h, outcome) == \E i \in 1..Len(ran) : ran[i] = Invocation(h, outcome)

\* The response the interface section gives for a rejection.
RejectionResponse(reason) ==
    [ status |-> 400,
      headers |-> {<<"X-REJECTED-BY", "patroneos">>, <<"CONTENT-TYPE", "application/json">>},
      body |-> "{\"message\":\"" \o reason \o "\",\"code\":400}" ]

\* The rules, read off the JSON text of the body the client sent.  The
\* transactions of a body are its items: one for an object, the elements
\* of an array, none otherwise; a null element is a transaction with no
\* actions and no signatures.
Decodable(b) ==
    /\ b.kind = "malformed" => b.lead = "x"
    /\ \A i \in 1..Len(b.items) : b.items[i].t \in {"object", "null"}

BatchSize(b) == Len(b.items)

ActionsOf(b) ==
    UNION {Range(b.items[i].actions) : i \in 1..Len(b.items)}

Violates(k, b, cfg, failedRead) ==
    CASE k = 1 -> b.kind # "empty" /\ (b.kind = "malformed" \/ failedRead)
      [] k = 2 -> BatchSize(b) > cfg.MaxTransactions
      [] k = 3 -> \E a \in ActionsOf(b) : Len(a.data) > cfg.MaxTransactionSize
      [] k = 4 -> \E i \in 1..Len(b.items) : Len(b.items[i].signatures) > cfg.MaxSignatures
      [] k = 5 -> \E a \in ActionsOf(b) : \E e \in cfg.ContractBlackList : e[1] = a.code

Violated == {k \in 1..5 : Violates(k, r.body, appConfig, readErr)}

Earliest(S) == CHOOSE k \in S : \A j \in S : k <= j

\* C1: in the composed pipeline (and around any single middleware), once a
\* stage has rejected the request no later handler is invoked: the
\* rejecting invocation is the last one, the request has left the chain,
\* and neither the Forwarder nor the upstream node has seen it.
C1_ShortCircuit ==
    \A i \in 1..Len(ran) :
        ran[i].outcome \in Rejections =>
            /\ i = Len(ran)
            /\ pc = 0
            /\ ~Invoked("forwardCallToNodeos")
            /\ ~Invoked("testHandler")
            /\ upstream = <<>>

\* A request stopped by the count stage that the blacklist stage would have
\* stopped too, had it run.
C1_Witness ==
    /\ Composed
    /\ Len(ran) = 2
    /\ ran[2] = Invocation("validateMaxTransactions", "TOO_MANY_TRANSACTIONS")
    /\ 5 \in Violated
    /\ pc = 0

\* C2: the handlers of the composed pipeline are invoked in the fixed order
\* validateJSON, validateMaxTransactions, validateTransactionSize,
\* validateMaxSignatures, validateContract, Forwarder, one after the other;
\* and a finished request that violates rules is answered, and reported to
\* every relay endpoint, with the reason of the earliest rule it violates.
C2_FixedOrder ==
    Composed =>
        /\ \A i \in 1..Len(ran) : ran[i].handler = PipelineOrder[i]
        /\ pc \in {0, Len(ran) + 1}
        /\ (pc = 0 /\ Decodable(r.body) /\ Violated # {}) =>
              LET reason == Reasons[Earliest(Violated)]
              IN  /\ resp = <<RejectionResponse(reason)>>
                  /\ Len(events) = Len(appConfig.LogEndpoints)
                  /\ \A e \in 1..Len(events) :
                        events[e].event = [Host |-> getHost(r), Success |-> FALSE, Message |-> reason]

\* A finished request that violates at least two rules at once, with its
\* rejection reported to a relay.
C2_Witness ==
    /\ Composed
    /\ pc = 0
    /\ Decodable(r.body)
    /\ Cardinality(Violated) >= 2
    /\ 1 \notin Violated
    /\ Len(events) = 1

\* C3: in the composed pipeline the Forwarder is invoked only for a request
\* that every one of the five stages passed on, a finished request that
\* violates no rule was handed to the Forwarder, the upstream node is
\* contacted by the Forwarder only, and a request a stage rejected is
\* answered by the filter's own 400 response and never sent upstream.
C3_ForwardIffAllPass ==
    Composed =>
        /\ Invoked("forwardCallToNodeos") =>
              /\ \A h \in RuleStages : Came(h, "next")
              /\ Decodable(r.body)
              /\ Violated = {}
        /\ (pc = 0 /\ Decodable(r.body) /\ Violated = {}) => Invoked("forwardCallToNodeos")
        /\ upstream # <<>> => Invoked("forwardCallToNodeos")
        /\ \A i \in 1..Len(ran) :
              ran[i].outcome \in Rejections =>
                  /\ upstream = <<>>
                  /\ resp = <<RejectionResponse(ran[i].outcome)>>

\* A batch of transactions that passed all five stages and reached the node.
C3_Witness ==
    /\ Composed
    /\ pc = 0
    /\ r.body.kind = "array"
    /\ BatchSize(r.body) > 0
    /\ Invoked("forwardCallToNodeos")
    /\ Len(upstream) = 1
    /\ upstream[1].body = r.body

C6_ValidateJSON ==
    \A i \in 1..Len(ran) :
        ran[i].handler = "validateJSON" =>
            /\ ran[i].outcome = "INVALID_JSON" <=> Violates(1, r.body, appConfig, readErr)
            /\ ran[i].outcome = "INVALID_JSON" =>
                  /\ resp = <<RejectionResponse("INVALID_JSON")>>
                  /\ resp[1].body = "{\"message\":\"INVALID_JSON\",\"code\":400}"
                  /\ pc = 0
            /\ ran[i].outcome # "INVALID_JSON" =>
                  /\ ran[i].outcome = "next"
                  /\ Len(ran) = i => (pc = i + 1 /\ resp = <<>> /\ events = <<>> /\ rBody = r.body)
                  /\ (mw = <<"validateJSON">> /\ pc = 0) =>
                        resp = <<[status |-> 200, headers |-> {}, body |-> "SUCCESS\n"]>>

\* Text that is not JSON, refused by validateJSON.
C6_Witness ==
    /\ r.body.kind = "malformed"
    /\ ~readErr
    /\ Came("validateJSON", "INVALID_JSON")
    /\ Len(resp) = 1

\* C7: validateMaxTransactions rejects a request whose body holds n
\* transactions, with reason TOO_MANY_TRANSACTIONS and status 400, exactly
\* when n > maxTransactions; with n <= maxTransactions, n = maxTransactions
\* included, it calls the next handler.
C7_MaxTransactions ==
    \A i \in 1..Len(ran) :
        (ran[i].handler = "validateMaxTransactions" /\ Decodable(r.body)) =>
            /\ ran[i].outcome = "TOO_MANY_TRANSACTIONS" <=> BatchSize(r.body) > appConfig.MaxTransactions
            /\ ran[i].outcome = "TOO_MANY_TRANSACTIONS" =>
                  /\ resp = <<RejectionResponse("TOO_MANY_TRANSACTIONS")>>
                  /\ resp[1].body = "{\"message\":\"TOO_MANY_TRANSACTIONS\",\"code\":400}"
            /\ BatchSize(r.body) <= appConfig.MaxTransactions =>
                  /\ ran[i].outcome = "next"
                  /\ Len(ran) = i => pc = i + 1

\* A batch of exactly maxTransactions (not zero) transactions, passed on.
C7_Witness ==
    /\ appConfig.MaxTransactions > 0
    /\ r.body.kind = "array"
    /\ BatchSize(r.body) = appConfig.MaxTransactions
    /\ Came("validateMaxTransactions", "next")

\* C8: validateTransactionSize rejects a request, with reason
\* INVALID_TRANSACTION_SIZE and status 400, exactly when some action of
\* some transaction of the batch has data longer than maxTransactionSize;
\* otherwise it calls the next handler.
C8_TransactionSize ==
    \A i \in 1..Len(ran) :
        (ran[i].handler = "validateTransactionSize" /\ Decodable(r.body)) =>
            /\ ran[i].outcome = "INVALID_TRANSACTION_SIZE" <=> Violates(3, r.body, appConfig, readErr)
            /\ ran[i].outcome = "INVALID_TRANSACTION_SIZE" =>
                  /\ resp = <<RejectionResponse("INVALID_TRANSACTION_SIZE")>>
                  /\ resp[1].body = "{\"message\":\"INVALID_TRANSACTION_SIZE\",\"code\":400}"
            /\ ~Violates(3, r.body, appConfig, readErr) =>
                  /\ ran[i].outcome = "next"
                  /\ Len(ran) = i => pc = i + 1

\* In the composed pipeline, a batch rejected for the data of an action of
\* its second transaction.
C8_Witness ==
    /\ Composed
    /\ BatchSize(r.body) = 2
    /\ \A a \in 1..Len(r.body.items[1].actions) :
          Len(r.body.items[1].actions[a].data) <= appConfig.MaxTransactionSize
    /\ Came("validateTransactionSize", "INVALID_TRANSACTION_SIZE")

\* C9: validateMaxSignatures rejects a request, with reason
\* INVALID_NUMBER_SIGNATURES and status 400, exactly when some transaction
\* of the batch carries more than maxSignatures signatures; otherwise,
\* a transaction with exactly maxSignatures signatures included, it calls
\* the next handler.
C9_MaxSignatures ==
    \A i \in 1..Len(ran) :
        (ran[i].handler = "validateMaxSignatures" /\ Decodable(r.body)) =>
            /\ ran[i].outcome = "INVALID_NUMBER_SIGNATURES" <=> Violates(4, r.body, appConfig, readErr)
            /\ ran[i].outcome = "INVALID_NUMBER_SIGNATURES" =>
                  /\ resp = <<RejectionResponse("INVALID_NUMBER_SIGNATURES")>>
                  /\ resp[1].body = "{\"message\":\"INVALID_NUMBER_SIGNATURES\",\"code\":400}"
            /\ ~Violates(4, r.body, appConfig, readErr) =>
                  /\ ran[i].outcome = "next"
                  /\ Len(ran) = i => pc = i + 1

\* In the composed pipeline, a transaction with exactly maxSignatures (not
\* zero) signatures, passed on by the signature stage.
C9_Witness ==
    /\ Composed
    /\ appConfig.MaxSignatures > 0
    /\ r.body.kind = "object"
    /\ Len(r.body.items[1].signatures) = appConfig.MaxSignatures
    /\ Came("validateMaxSignatures", "next")

\* C10: validateContract rejects a request, with reason BLACKLISTED_CONTRACT
\* and status 400, exactly when some action of some transaction of the
\* batch names a contract listed in the blacklist; otherwise it calls the
\* next handler.
C10_Blacklist ==
    \A i \in 1..Len(ran) :
        (ran[i].handler = "validateContract" /\ Decodable(r.body)) =>
            /\ ran[i].outcome = "BLACKLISTED_CONTRACT" <=> Violates(5, r.body, appConfig, readErr)
            /\ ran[i].outcome = "BLACKLISTED_CONTRACT" =>
                  /\ resp = <<RejectionResponse("BLACKLISTED_CONTRACT")>>
                  /\ resp[1].body = "{\"message\":\"BLACKLISTED_CONTRACT\",\"code\":400}"
            /\ ~Violates(5, r.body, appConfig, readErr) =>
                  /\ ran[i].outcome = "next"
                  /\ Len(ran) = i => pc = i + 1

\* In the composed pipeline, a request that passed the four stages before
\* and is rejected for a blacklisted contract.
C10_Witness ==
    /\ Composed
    /\ Len(ran) = 5
    /\ Came("validateContract", "BLACKLISTED_CONTRACT")
    /\ <<"currency", TRUE>> \in appConfig.ContractBlackList

\* The caller's host as section 4.5 determines it.
CallerHost == IF r.XForwardedFor # "" THEN r.XForwardedFor ELSE r.RemoteAddr

\* The address an event for entry e of the relay endpoint list goes to.
RelayAddress(e) ==
    IF e.hasRelayPath THEN e.base ELSE e.base \o "/patroneos/fail2ban-relay"

\* One post per entry of the relay endpoint list, in order, each carrying
\* the event (host, success, message).
ReportedToEveryRelay(success, message) ==
    /\ Len(events) = Len(appConfig.LogEndpoints)
    /\ \A e \in 1..Len(events) :
          /\ events[e].url.base = RelayAddress(appConfig.LogEndpoints[e])
          /\ events[e].event = [Host |-> CallerHost, Success |-> success, Message |-> message]

\* C11: a stage that reports one of the five policy violations halts the
\* pipeline (its invocation is the last, the request has left the chain and
\* nothing went upstream), a failure event with success = false, the reason
\* and the caller's host has been posted to every relay endpoint, and the
\* client has got status 400, the header X-REJECTED-BY: patroneos and the
\* body {message: <reason>, code: 400}.
C11_ViolationEffects ==
    \A i \in 1..Len(ran) :
        ran[i].outcome \in Range(Reasons) =>
            /\ i = Len(ran)
            /\ pc = 0
            /\ upstream = <<>>
            /\ ReportedToEveryRelay(FALSE, ran[i].outcome)
            /\ Len(resp) = 1
            /\ resp[1].status = 400
            /\ <<"X-REJECTED-BY", "patroneos">> \in resp[1].headers
            /\ resp[1].body = "{\"message\":\"" \o ran[i].outcome \o "\",\"code\":400}"

\* A request from behind a proxy, rejected for its signatures by a filter
\* that has a relay endpoint.
C11_Witness ==
    /\ Composed
    /\ r.XForwardedFor # ""
    /\ Came("validateMaxSignatures", "INVALID_NUMBER_SIGNATURES")
    /\ Len(events) = 1
    /\ Len(resp) = 1

\* The transactions a body holds, read off its JSON text.
TransactionsOf(b) ==
    [i \in 1..Len(b.items) |->
        [ Actions |-> [a \in 1..Len(b.items[i].actions) |->
                          [Code |-> b.items[i].actions[a].code,
                           Data |-> b.items[i].actions[a].data]],
          Signatures |-> b.items[i].signatures ]]

\* C12: over one request the body is read and parsed into transactions by
\* at most one call of getTransactions, the first (in the composed pipeline
\* that of validateMaxTransactions, the first stage that needs them); every
\* later stage of the request gets the same sequence from the context,
\* without reading the body, and the sequence is the one the body holds.
C12_ExtractOnce ==
    /\ \A i \in 1..Len(extractions) :
          /\ extractions[i].read <=> i = 1
          /\ extractions[i].transactions = extractions[1].transactions
          /\ Composed => extractions[i].by = PipelineOrder[i + 1]
          /\ (i > 1 \/ ran[Len(ran)].outcome # "PARSE_ERROR") =>
                extractions[i].transactions = TransactionsOf(r.body)
    /\ \A h \in TransactionStages :
          Invoked(h) => \E i \in 1..Len(extractions) : extractions[i].by = h
    /\ (ctx.set /\ extractions # <<>>) => ctx.transactions = extractions[1].transactions

\* A batch that went through the four stages that need the transactions.
C12_Witness ==
    /\ Composed
    /\ Len(extractions) = 4
    /\ ~extractions[4].read
    /\ r.body.kind = "array"
    /\ Len(extractions[4].transactions) = 2

\* The upstream round trip of the request came back with an answer.
RoundTripCompleted == Len(roundTrips) = 1 /\ roundTrips[1].err = ""

\* http.NewRequest or client.Do failed.
TransportError == Len(roundTrips) = 1 /\ roundTrips[1].err # ""

\* C13: whatever stages have read the body, the handler the request is
\* passed to still reads the complete body the client sent, and the request
\* the Forwarder sends to the node has the method of the inbound request,
\* its path and query string after the node's address, and its body.
C13_RequestUnchanged ==
    /\ pc \in 1..(Len(mw) + 1) => rBody = r.body
    /\ \A k \in 1..Len(upstream) :
          /\ upstream[k].Method = r.Method
          /\ upstream[k].URL = "http://localhost:8888" \o r.URL
          /\ upstream[k].body = r.body
    /\ (Invoked("forwardCallToNodeos") /\ roundTrips[1].err # "NewRequest") => Len(upstream) = 1

\* A GET with a query string and a transaction in its body, read by
\* validateJSON and by getTransactions, as it reached the node.
C13_Witness ==
    /\ r.Method = "GET"
    /\ r.URL = "/v1/chain/get_block?num=5&verbose=1"
    /\ r.body.kind = "object"
    /\ Len(extractions) = 4
    /\ Len(upstream) = 1
    /\ upstream[1].URL = "http://localhost:8888/v1/chain/get_block?num=5&verbose=1"

\* C14: when the node has answered, the client gets the node's status code,
\* every header value of the answer except those of Content-Length, both
\* values of a header with two values included, and the node's body, for
\* status 200 and for any other status.
C14_MirrorsUpstream ==
    RoundTripCompleted =>
        /\ Len(resp) = 1
        /\ resp[1].status = roundTrips[1].res.status
        /\ resp[1].body = roundTrips[1].res.body
        /\ \A h \in roundTrips[1].res.headers :
              h \in resp[1].headers <=> h[1] # "Content-Length"
        /\ resp[1].headers \subseteq roundTrips[1].res.headers

\* A status 500 of the node as the client got it, with both Set-Cookie
\* values.
C14_Witness ==
    /\ RoundTripCompleted
    /\ roundTrips[1].res.status = 500
    /\ Len(resp) = 1
    /\ {<<"Set-Cookie", "a=1">>, <<"Set-Cookie", "b=2">>} \subseteq resp[1].headers

\* C15: when the node has answered a forwarded request, every relay
\* endpoint has been sent one event, (success = true, SUCCESS) if the
\* status is 200 and (success = false, TRANSACTION_FAILED) otherwise, and
\* no other; for a status other than 200 the client has the node's answer,
\* not the 400 response of a rejection.
C15_ForwardEvents ==
    RoundTripCompleted =>
        /\ roundTrips[1].res.status = 200 => ReportedToEveryRelay(TRUE, "SUCCESS")
        /\ roundTrips[1].res.status # 200 =>
              /\ ReportedToEveryRelay(FALSE, "TRANSACTION_FAILED")
              /\ Len(resp) = 1
              /\ resp[1].status = roundTrips[1].res.status
              /\ resp[1].body = roundTrips[1].res.body
              /\ resp[1] # RejectionResponse("TRANSACTION_FAILED")
              /\ \A h \in resp[1].headers : h[1] # "X-REJECTED-BY"
        /\ (\E e \in 1..Len(events) : events[e].event.Success)
              <=> (roundTrips[1].res.status = 200 /\ appConfig.LogEndpoints # <<>>)

\* A transaction the node refused, reported to two relays.
C15_Witness ==
    /\ RoundTripCompleted
    /\ roundTrips[1].res.status = 500
    /\ Len(events) = 2
    /\ events[2].event.Message = "TRANSACTION_FAILED"
    /\ pc = 0

\* C16: when http.NewRequest or client.Do fails, the Forwarder has returned
\* with no response written, no event posted to any relay endpoint, and the
\* node called at most once.
C16_TransportError ==
    TransportError =>
        /\ pc = 0
        /\ resp = <<>>
        /\ events = <<>>
        /\ Len(upstream) <= 1
        /\ Len(upstream) = 1 <=> roundTrips[1].err = "Do"
        /\ ran[Len(ran)] = Invocation("forwardCallToNodeos", "done")

\* client.Do failed under a configuration with relay endpoints.
C16_Witness ==
    /\ TransportError
    /\ roundTrips[1].err = "Do"
    /\ Len(upstream) = 1
    /\ appConfig.LogEndpoints # <<>>

\* An event has been emitted for the request: a stage reported a failure,
\* or the node answered.
EventEmitted ==
    \/ RoundTripCompleted
    \/ \E i \in 1..Len(ran) : ran[i].outcome \in Rejections

\* C17: an emitted event has been posted once to every entry of the relay
\* endpoint list, repeated entries included, in the order of the list,
\* whichever of the posts failed; and the handler has gone on to answer the
\* client.
C17_EveryEndpoint ==
    EventEmitted =>
        /\ Len(events) = Len(appConfig.LogEndpoints)
        /\ \A e \in 1..Len(events) :
              /\ events[e].url.base = RelayAddress(appConfig.LogEndpoints[e])
              /\ events[e].event = events[1].event
              /\ events[e].err <=> relays[events[e].url] = "down"
        /\ pc = 0
        /\ Len(resp) = 1

\* The post to the first of two endpoints failed and the second was made.
C17_Witness ==
    /\ Len(appConfig.LogEndpoints) = 2
    /\ Len(events) = 2
    /\ events[1].err
    /\ ~events[2].err

\* C18: the response to the client does not wait for the relays: once a
\* stage has reported a failure, or the node has answered, the client has
\* its response (the 400 of the rejection or the node's answer) whether or
\* not the posts of the event to the relay endpoints have returned.
C18_NonBlocking == EventEmitted => Len(resp) = 1

\* C19: every event carries as host the X-Forwarded-For header of the
\* request when it has a non-empty one, and the connection address
\* otherwise.
C19_EventHost ==
    \A e \in 1..Len(events) :
        /\ r.XForwardedFor # "" => events[e].event.Host = r.XForwardedFor
        /\ r.XForwardedFor = "" => events[e].event.Host = r.RemoteAddr

\* A success event for a request from behind a proxy.
C19_Witness ==
    /\ r.XForwardedFor = "203.0.113.7"
    /\ Len(events) = 1
    /\ events[1].event = [Host |-> "203.0.113.7", Success |-> TRUE, Message |-> "SUCCESS"]

\* C20: a request to /patroneos/fail2ban-relay is served by relay alone: no
\* stage of the pipeline and no Forwarder is invoked for it, nothing is
\* extracted from it, nothing goes upstream, no event is posted, and once
\* served it has status 403 and the body {message, code: 403}, whatever its
\* method and body are.
C20_RelayForbidden ==
    r.Path = "/patroneos/fail2ban-relay" =>
        /\ \A i \in 1..Len(ran) : ran[i].handler = "relay"
        /\ Len(ran) <= 1
        /\ extractions = <<>>
        /\ upstream = <<>>
        /\ roundTrips = <<>>
        /\ events = <<>>
        /\ pc \in {0, 1}
        /\ pc = 0 =>
              /\ Len(resp) = 1
              /\ resp[1].status = 403
              /\ resp[1].body =
                    "{\"message\":\"Patroneos cannot receive fail2ban relay requests when running in filter mode. Please check your config.\",\"code\":403}"

\* A transaction on a blacklisted contract sent to the relay path of a
\* filter with relay endpoints, answered 403.
C20_Witness ==
    /\ r.Path = "/patroneos/fail2ban-relay"
    /\ r.body.kind = "object"
    /\ Violates(5, r.body, appConfig, FALSE)
    /\ appConfig.LogEndpoints # <<>>
    /\ pc = 0
    /\ Len(resp) = 1

\* C24: a stage that needs the transactions of a body that begins with an
\* object or array token and cannot be decoded reports PARSE_ERROR, whatever
\* rules the body would violate, and no body that can be decoded is
\* reported so; the stage halts the pipeline, the failure event is posted
\* to every relay endpoint, and the client gets the 400 response with the
\* reason PARSE_ERROR; every rejection of a request has written a response.
C24_ParseError ==
    \A i \in 1..Len(ran) :
        /\ ran[i].handler \in TransactionStages =>
              (ran[i].outcome = "PARSE_ERROR" <=> ~Decodable(r.body))
        /\ ran[i].outcome = "PARSE_ERROR" =>
              /\ r.body.lead \in {"{", "["}
              /\ i = Len(ran)
              /\ pc = 0
              /\ upstream = <<>>
              /\ ctx = EmptyCtx
              /\ ReportedToEveryRelay(FALSE, "PARSE_ERROR")
              /\ resp = <<RejectionResponse("PARSE_ERROR")>>
        /\ ran[i].outcome \in Rejections =>
              /\ Len(resp) = 1
              /\ resp[1].status = 400

\* The blacklist stage alone, given an array whose first element acts on a
\* blacklisted contract and whose second element is not a transaction.
C24_Witness ==
    /\ mw = <<"validateContract">>
    /\ r.body.kind = "array"
    /\ BatchSize(r.body) = 2
    /\ ~Decodable(r.body)
    /\ Violates(5, r.body, appConfig, FALSE)
    /\ Came("validateContract", "PARSE_ERROR")
    /\ Len(resp) = 1

\* The body holds a transaction with a signature, or an action with data.
HasSignature(b) == \E i \in 1..Len(b.items) : Len(b.items[i].signatures) >= 1

HasData(b) == \E a \in ActionsOf(b) : a.data # ""

\* C28: a threshold of 0 rejects whatever exceeds nothing: with
\* maxTransactions = 0 the count stage rejects every body holding at least
\* one transaction, with maxSignatures = 0 the signature stage rejects every
\* body holding a transaction with a signature, with maxTransactionSize = 0
\* the size stage rejects every body holding an action with data, and no
\* such request is forwarded; with thresholds of 0 a request with an empty
\* body is passed on by every stage.
C28_ZeroThreshold ==
    /\ \A i \in 1..Len(ran) :
          Decodable(r.body) =>
              /\ ( /\ ran[i].handler = "validateMaxTransactions"
                   /\ appConfig.MaxTransactions = 0
                   /\ BatchSize(r.body) >= 1 ) => ran[i].outcome = "TOO_MANY_TRANSACTIONS"
              /\ ( /\ ran[i].handler = "validateMaxSignatures"
                   /\ appConfig.MaxSignatures = 0
                   /\ HasSignature(r.body) ) => ran[i].outcome = "INVALID_NUMBER_SIGNATURES"
              /\ ( /\ ran[i].handler = "validateTransactionSize"
                   /\ appConfig.MaxTransactionSize = 0
                   /\ HasData(r.body) ) => ran[i].outcome = "INVALID_TRANSACTION_SIZE"
    /\ ( /\ Composed
         /\ pc = 0
         /\ \/ appConfig.MaxTransactions = 0 /\ BatchSize(r.body) >= 1
            \/ appConfig.MaxSignatures = 0 /\ HasSignature(r.body)
            \/ appConfig.MaxTransactionSize = 0 /\ HasData(r.body) ) =>
          /\ ~Invoked("forwardCallToNodeos")
          /\ upstream = <<>>
          /\ Len(resp) = 1
          /\ resp[1].status = 400
    /\ ( /\ r.body.kind = "empty"
         /\ 0 \in {appConfig.MaxTransactions, appConfig.MaxSignatures,
                   appConfig.MaxTransactionSize} ) =>
          /\ \A i \in 1..Len(ran) : ran[i].outcome \in {"next", "done"}
          /\ (Composed /\ pc = 0) => Invoked("forwardCallToNodeos")

\* One transaction without actions or signatures, rejected by the count
\* stage of a filter whose thresholds are all 0.
C28_Witness ==
    /\ Composed
    /\ appConfig.MaxTransactions = 0
    /\ appConfig.MaxSignatures = 0
    /\ appConfig.MaxTransactionSize = 0
    /\ r.body.kind = "object"
    /\ ~HasSignature(r.body)
    /\ ~HasData(r.body)
    /\ Came("validateMaxTransactions", "TOO_MANY_TRANSACTIONS")

\* What the client of a finished request is due, from the request, the
\* configuration, the read error and the answer of the node alone: the 403
\* of the relay route, the 400 of the earliest failing stage, nothing after a
\* transport error, else the answer of the node without its Content-Length.
DueReason ==
    IF 1 \in Violated THEN "INVALID_JSON"
    ELSE IF ~Decodable(r.body) THEN "PARSE_ERROR"
    ELSE IF Violated # {} THEN Reasons[Earliest(Violated)]
    ELSE ""

DueResponses ==
    IF r.Path = "/patroneos/fail2ban-relay"
    THEN << [ status |-> 403, headers |-> {},
              body |-> "{\"message\":\"" \o relayMessage \o "\",\"code\":403}" ] >>
    ELSE IF DueReason # "" THEN <<RejectionResponse(DueReason)>>
    ELSE IF roundTrips[1].err # "" THEN <<>>
    ELSE << [ status |-> roundTrips[1].res.status,
              headers |-> {h \in roundTrips[1].res.headers : h[1] # "Content-Length"},
              body |-> roundTrips[1].res.body ] >>

\* C30: the responses a finished request has got are those due to it from
\* the request, the configuration and the node's answer, the same whichever
\* posts to the relays failed; and the posts made for a request are at most
\* one per entry of the relay endpoint list, each to the address of its
\* entry.
C30_RelayErrorsHidden ==
    /\ pc = 0 => resp = DueResponses
    /\ Len(events) <= Len(appConfig.LogEndpoints)
    /\ \A e \in 1..Len(events) :
          events[e].url.base = RelayAddress(appConfig.LogEndpoints[e])

\* A rejection answered as usual after the only post of its event failed.
C30_Witness ==
    /\ pc = 0
    /\ Len(events) = 1
    /\ events[1].err
    /\ resp = <<RejectionResponse("BLACKLISTED_CONTRACT")>>

\* The configuration POST has been served and its body was accepted:
\* json.Unmarshal returned no error.
Accepted == post.phase = "done" /\ ~post.err

\* C21: after an accepted configuration POST with body B the active
\* configuration is the one B alone describes (what B does not name holds
\* nothing of the previous configuration), and a GET served after the POST
\* answers with the field values of that configuration.
C21_ReplacesWhole ==
    Accepted =>
        /\ appConfig = parseConfigFile(post.body)
        /\ \A i \in 1..Len(configReplies) :
              configReplies[i].phase = "done" =>
                  configReplies[i].body = marshalConfig(parseConfigFile(post.body))

\* C27: a served configuration POST has written the file only if its body
\* was accepted, and then the file holds the bytes of the body; when the
\* body could not be parsed as a configuration, the file and the active
\* configuration are what they were before the POST.
C27_PersistsAccepted ==
    post.phase = "done" =>
        /\ post.written => ~post.err /\ configFile = post.body
        /\ post.err => configFile = post.fileBefore /\ appConfig = post.before

\* The numbers the body of the POST gives to fields of the configuration:
\* the members of type number tagged with a field of that type, each name
\* once.
NumbersPosted ==
    {m \in Range(post.body.members) : m.t = "number" /\ ~mistyped(m) /\ tagged(m.name) # {}}

Observed(cfg) ==
    << cfg.MaxTransactions, cfg.MaxTransactionSize, cfg.MaxSignatures,
       cfg.ContractBlackList, cfg.LogEndpoints >>

\* C26: every handler invoked for a request, and the event reporter it
\* calls, observes the thresholds, the blacklist and the relay endpoints the
\* first handler of that request observed, a configuration POST applied
\* between two stages notwithstanding.
C26_OneSnapshot ==
    \A i \in 1..Len(configRead) : Observed(configRead[i]) = Observed(configRead[1])

\* The handlers that read appConfig whatever the request: the transaction
\* stages and the forwarder, each with the event reporter it calls.
ConfigReaders == TransactionStages \cup {"forwardCallToNodeos"}

\* The configuration before the POST and the one json.Unmarshal has made of
\* it once it returns.
OldOrNew ==
    IF post.phase = "waiting" THEN {appConfig}
    ELSE {post.before, unmarshalConfig(post.body, post.before).cfg}

\* C22: whatever a handler reads of the configuration while a configuration
\* POST is applied is the old configuration or the new one as a whole,
\* never some fields of one with some fields of the other.
C22_ReplacedAsUnit ==
    \A i \in 1..Len(ran) :
        ran[i].handler \in ConfigReaders => configRead[i] \in OldOrNew

\* The requests in flight: the one whose handlers run and the others.
InFlight == {requestState} \cup Range(parked)

\* The rules a request violates, by its own body.
ViolatedBy(q) == {k \in 1..5 : Violates(k, q.r.body, appConfig, q.readErr)}

\* C25: with requests interleaved in any way, the transactions a stage
\* evaluates for a request are those of the request's own body, and the
\* decision for a finished request is the one its own body determines:
\* rejected with the reason of the earliest rule its body violates, or sent
\* to the node with its own body.
C25_Isolation ==
    \A q \in InFlight :
        /\ \A i \in 1..Len(q.extractions) :
              q.ran[Len(q.ran)].outcome # "PARSE_ERROR" =>
                  q.extractions[i].transactions = TransactionsOf(q.r.body)
        /\ q.ctx.set => q.ctx.transactions = TransactionsOf(q.r.body)
        /\ (q.pc = 0 /\ Decodable(q.r.body)) =>
              IF ViolatedBy(q) = {}
              THEN /\ q.ran[Len(q.ran)].handler = "forwardCallToNodeos"
                   /\ \A k \in 1..Len(q.upstream) : q.upstream[k].body = q.r.body
              ELSE q.resp = <<RejectionResponse(Reasons[Earliest(ViolatedBy(q))])>>
        /\ (q.pc = 0 /\ ~Decodable(q.r.body)) =>
              /\ Len(q.resp) = 1
              /\ q.resp[1].status = 400
              /\ q.upstream = <<>>

\* Two requests with different transactions, both between two stages, each
\* with its transactions cached; the one running is about to be rejected for
\* its contract while the other one violates no rule.
C25_Witness ==
    /\ Len(parked) = 1
    /\ pc = 5
    /\ parked[1].pc = 3
    /\ ctx.set
    /\ parked[1].ctx.set
    /\ ctx.transactions # parked[1].ctx.transactions
    /\ ViolatedBy(requestState) = {5}
    /\ ViolatedBy(parked[1]) = {}

\* C23: a request to the relay whose body is an Event with host, success and
\* message has put exactly one line in the log file, and one in standard
\* logging, and the line carries that host, flag and message; a request
\* whose body json.Unmarshal refuses has put nothing in the log file, and
\* is answered by the server's default response.
C23_OneLinePerEvent ==
    pc = 0 =>
        /\ r.body.kind = "object" =>
              /\ Len(logFile) = 1
              /\ Len(r.body.message) = 1 =>
                    logFile[1] = Stamp \o r.body.host[1]
                                       \o (IF r.body.success THEN " true " ELSE " false ")
                                       \o r.body.message[1]
              /\ stdLog = logFile
        /\ r.body.kind \in {"mistyped", "empty", "malformed"} =>
              /\ logFile = <<>>
              /\ resp = <<Response(200, {}, "")>>

\* The contracts the actions of a body name.
ContractsOf(b) == {a.code : a \in ActionsOf(b)}

\* The keys of a blacklist, whatever is stored under them.
Listed(cfg) == {entry[1] : entry \in cfg.ContractBlackList}

\* C34: validateContract decides by the keys of contractBlackList alone: a
\* request one of whose actions names a listed contract is rejected with
\* BLACKLISTED_CONTRACT and the 400 response of that reason whether true or
\* false is stored under the contract, and one that names no listed
\* contract is passed on.
C34_MembershipOnly ==
    \A i \in 1..Len(ran) :
        (ran[i].handler = "validateContract" /\ Decodable(r.body)) =>
            IF ContractsOf(r.body) \cap Listed(appConfig) # {}
            THEN /\ ran[i].outcome = "BLACKLISTED_CONTRACT"
                 /\ resp = <<RejectionResponse("BLACKLISTED_CONTRACT")>>
                 /\ upstream = <<>>
            ELSE ran[i].outcome = "next"

\* A request for a contract listed with the value false, rejected by
\* validateContract at the end of the composed pipeline.
C34_Witness ==
    /\ Composed
    /\ appConfig.ContractBlackList = {<<"currency", FALSE>>}
    /\ "currency" \in ContractsOf(r.body)
    /\ Len(ran) = 5
    /\ ran[5] = Invocation("validateContract", "BLACKLISTED_CONTRACT")
    /\ resp = <<RejectionResponse("BLACKLISTED_CONTRACT")>>

\* The stages that need the transactions after the count stage.
LaterStages == TransactionStages \ {"validateMaxTransactions"}

\* C33: in the composed pipeline PARSE_ERROR comes from validateMaxTransactions
\* only.  Once that stage has passed the request on, the context carries
\* the transactions, every call of getTransactions by the size, signature
\* and blacklist stages returns them without reading the body, and none of
\* these stages reports PARSE_ERROR.
C33_ParseErrorFirstOnly ==
    Composed =>
        /\ \A i \in 1..Len(ran) :
              ran[i].outcome = "PARSE_ERROR" => ran[i].handler = "validateMaxTransactions"
        /\ Came("validateMaxTransactions", "next") =>
              /\ ctx.set
              /\ \A h \in LaterStages : ~Came(h, "PARSE_ERROR")
              /\ \A j \in 1..Len(extractions) :
                    extractions[j].by \in LaterStages =>
                        /\ ~extractions[j].read
                        /\ extractions[j].transactions = ctx.transactions

\* A request that passed the count stage and was then judged by the size,
\* signature and blacklist stages, the last of which rejected it.
C33_Witness ==
    /\ Composed
    /\ Came("validateMaxTransactions", "next")
    /\ Len(extractions) = 4
    /\ extractions[4].by = "validateContract"
    /\ ~extractions[4].read
    /\ Len(extractions[4].transactions) >= 1
    /\ Came("validateContract", "BLACKLISTED_CONTRACT")

\* The three ways a request leaves the filter pipeline: with the answer of
\* the node, with the filter's 400 response naming the reason, or, after a
\* transport error, with no response written by the filter.
EndsMirrored ==
    /\ RoundTripCompleted
    /\ Len(resp) = 1
    /\ resp[1].status = roundTrips[1].res.status
    /\ resp[1].body = roundTrips[1].res.body

EndsRejected ==
    /\ roundTrips = <<>>
    /\ \E reason \in Rejections : resp = <<RejectionResponse(reason)>>

EndsTransportError ==
    /\ TransportError
    /\ resp = <<>>

\* C31: a request served by the filter pipeline that has left it ended in
\* exactly one of the three ways; no request has more than one response
\* written, and the events of a request are all of one kind: no request is
\* reported both as a success and as a failure.
C31_OneOutcome ==
    Composed =>
        /\ Len(resp) <= 1
        /\ \A e1, e2 \in 1..Len(events) :
              events[e1].event.Success = events[e2].event.Success
        /\ pc = 0 =>
              Cardinality({k \in 1..3 : CASE k = 1 -> EndsMirrored
                                          [] k = 2 -> EndsRejected
                                          [] k = 3 -> EndsTransportError}) = 1

\* The node answered a request with status 500: the failure was reported
\* to two relays and the client has the node's answer.
C31_Witness ==
    /\ Composed
    /\ pc = 0
    /\ EndsMirrored
    /\ resp[1].status = 500
    /\ Len(events) = 2
    /\ ~events[1].event.Success

\* C32: the wrappers of the composite handler are built once for the
\* process, not for every request, and every request is served by the
\* same wiring: the stages of addFilterHandlers in their order, ending in the
\* Forwarder.
C32_StaticWiring ==
    /\ built <= Len(FilterChain)
    /\ \A q \in InFlight :
          /\ q.mw = FilterChain
          /\ q.final = "forwardCallToNodeos"

====
